---------------------------- MODULE Spec2Model ----------------------------
(***************************************************************************)
(* Intel3AParameter (src/src/3a/intel3a/Intel3AParameter.cpp): the per-    *)
(* camera translator from one capture request per frame to the AE, AF and  *)
(* AWB parameter blocks of the 3A engine, and the post-processing of the   *)
(* engine's results.                                                       *)
(*                                                                         *)
(* Every C++ method is an operator from the object's fields (a record      *)
(* "self") and its arguments to the fields after the call; the actions     *)
(* apply the public methods to the variables.  Enumerators are strings     *)
(* named after the C++ enumerators.  Floats are modelled on the integers   *)
(* the requests of the model carry (dB, diopters, microseconds).           *)
(* Fields that are only copied through an external conversion and are read *)
(* by no method (frame_use, flash_mode, sensor_descriptor) are left out.   *)
(***************************************************************************)
EXTENDS Integers, Sequences, FiniteSets, TLC

VARIABLES
    mAeParams,              \* cca::cca_ae_input_params
    mAfParams,              \* cca::cca_af_input_params
    mAwbParams,             \* cca::cca_awb_input_params
    mUseManualAwbGain,
    mUseManualColorMatrix,
    mColorMatrix,
    mColorGains,
    mManualGains,
    mAwbGainShift,
    mAePerTicks,
    mAwbPerTicks,
    mAfForceLock,
    mDuringAfTriggerScan,
    mAfTrigger,
    mAfMode,
    op,                     \* the public method called last ("constructor" at first)
    arg,                    \* its arguments
    out,                    \* the caller's result structure after the call
    pre                     \* the AF members and regions as the call found them

fields == <<mAeParams, mAfParams, mAwbParams, mUseManualAwbGain,
            mUseManualColorMatrix, mColorMatrix, mColorGains, mManualGains,
            mAwbGainShift, mAePerTicks, mAwbPerTicks, mAfForceLock,
            mDuringAfTriggerScan, mAfTrigger, mAfMode>>

vars == <<mAeParams, mAfParams, mAwbParams, mUseManualAwbGain,
          mUseManualColorMatrix, mColorMatrix, mColorGains, mManualGains,
          mAwbGainShift, mAePerTicks, mAwbPerTicks, mAfForceLock,
          mDuringAfTriggerScan, mAfTrigger, mAfMode, op, arg, out, pre>>

\* The object as one record, as the methods see it through "this".
This ==
    [mAeParams |-> mAeParams, mAfParams |-> mAfParams, mAwbParams |-> mAwbParams,
     mUseManualAwbGain |-> mUseManualAwbGain,
     mUseManualColorMatrix |-> mUseManualColorMatrix,
     mColorMatrix |-> mColorMatrix, mColorGains |-> mColorGains,
     mManualGains |-> mManualGains, mAwbGainShift |-> mAwbGainShift,
     mAePerTicks |-> mAePerTicks, mAwbPerTicks |-> mAwbPerTicks,
     mAfForceLock |-> mAfForceLock, mDuringAfTriggerScan |-> mDuringAfTriggerScan,
     mAfTrigger |-> mAfTrigger, mAfMode |-> mAfMode]

\* What a call found: the AF members, the focus rectangle, the metering point,
\* the two AWB flags, whether any slot of a manual AE array was set, the two
\* tick counts and the frame-time limits.
Found ==
    [mAfMode |-> mAfMode, mAfTrigger |-> mAfTrigger, mAfForceLock |-> mAfForceLock,
     mDuringAfTriggerScan |-> mDuringAfTriggerScan,
     focus_mode |-> mAfParams.focus_mode, focus_rect |-> mAfParams.focus_rect,
     exposure_coordinate |-> mAeParams.exposure_coordinate,
     mUseManualAwbGain |-> mUseManualAwbGain,
     mUseManualColorMatrix |-> mUseManualColorMatrix,
     manual_set |-> \E i \in DOMAIN mAeParams.manual_iso :
                        \/ mAeParams.manual_exposure_time_us[i] # 0
                        \/ mAeParams.manual_analog_gain[i] # 0
                        \/ mAeParams.manual_iso[i] # 0,
     mAePerTicks |-> mAePerTicks, mAwbPerTicks |-> mAwbPerTicks,
     manual_frame_time_us_min |-> mAeParams.manual_limits.manual_frame_time_us_min,
     manual_frame_time_us_max |-> mAeParams.manual_limits.manual_frame_time_us_max]

\* The fields after a call are those of the record the method leaves.
Becomes(self) ==
    /\ mAeParams' = self.mAeParams
    /\ mAfParams' = self.mAfParams
    /\ mAwbParams' = self.mAwbParams
    /\ mUseManualAwbGain' = self.mUseManualAwbGain
    /\ mUseManualColorMatrix' = self.mUseManualColorMatrix
    /\ mColorMatrix' = self.mColorMatrix
    /\ mColorGains' = self.mColorGains
    /\ mManualGains' = self.mManualGains
    /\ mAwbGainShift' = self.mAwbGainShift
    /\ mAePerTicks' = self.mAePerTicks
    /\ mAwbPerTicks' = self.mAwbPerTicks
    /\ mAfForceLock' = self.mAfForceLock
    /\ mDuringAfTriggerScan' = self.mDuringAfTriggerScan
    /\ mAfTrigger' = self.mAfTrigger
    /\ mAfMode' = self.mAfMode

(***************************************************************************)
(* Bounds of the model.                                                    *)
(***************************************************************************)
MaxExposureNum == 2       \* sub-exposure slots of the manual arrays
MaxFocusDistance == 3     \* largest focus distance of a request, diopters
MaxManualExpTime == 4     \* largest manual exposure time of a request, us
MaxManualGain == 3        \* largest manual gain of a request, dB
MaxManualIso == 1         \* largest manual ISO of a request, in hundreds

(***************************************************************************)
(* Enumerations.                                                           *)
(***************************************************************************)
AfModes == {"AF_MODE_AUTO", "AF_MODE_MACRO", "AF_MODE_CONTINUOUS_VIDEO",
            "AF_MODE_CONTINUOUS_PICTURE", "AF_MODE_OFF"}
AfTriggers == {"AF_TRIGGER_IDLE", "AF_TRIGGER_START", "AF_TRIGGER_CANCEL"}
AfStatuses == {"ia_aiq_af_status_local_search", "ia_aiq_af_status_extended_search",
               "ia_aiq_af_status_success", "ia_aiq_af_status_fail"}

\* A null pointer, as a record so that it compares with the result structures.
NULL == [nullptr |-> TRUE]
ZeroRect == [left |-> 0, top |-> 0, right |-> 0, bottom |-> 0]
ZeroCoordinate == [x |-> 0, y |-> 0]
ZeroGains == [r_gain |-> 0, g_gain |-> 0, b_gain |-> 0]
Zeros(n) == [i \in 1..n |-> 0]

(***************************************************************************)
(* External helpers (iutils/Utils.h, AiqUtils): not part of the sources    *)
(* at hand, modelled from their documented meaning.                        *)
(***************************************************************************)
\* CLIP(Number, Max, Min): Number clamped between Min and Max.
CLIP(Number, Max, Min) ==
    IF Number > Max THEN Max ELSE IF Number < Min THEN Min ELSE Number

\* The engine's coordinate system every window and point is remapped to.
IaCoordinateSystem == [left |-> 0, top |-> 0, right |-> 8192, bottom |-> 8192]

FrameCoord(param) ==
    [left |-> 0, top |-> 0, right |-> param.resolution.width,
     bottom |-> param.resolution.height]

\* AiqUtils::convertToIaCoordinate: a point of the frame, rescaled.
convertToIaCoordinate(srcSystem, srcCoordinate) ==
    LET dst == IaCoordinateSystem
        srcWidth == srcSystem.right - srcSystem.left
        srcHeight == srcSystem.bottom - srcSystem.top
        dstWidth == dst.right - dst.left
        dstHeight == dst.bottom - dst.top
    IN  [x |-> ((srcCoordinate.x - srcSystem.left) * dstWidth) \div srcWidth + dst.left,
         y |-> ((srcCoordinate.y - srcSystem.top) * dstHeight) \div srcHeight + dst.top]

\* AiqUtils::convertToIaWindow: both corners of a window, rescaled.
convertToIaWindow(srcSystem, srcWindow) ==
    LET leftTop == convertToIaCoordinate(srcSystem,
                       [x |-> srcWindow.left, y |-> srcWindow.top])
        rightBottom == convertToIaCoordinate(srcSystem,
                       [x |-> srcWindow.right, y |-> srcWindow.bottom])
    IN  [left |-> leftTop.x, top |-> leftTop.y,
         right |-> rightBottom.x, bottom |-> rightBottom.y]

\* vector::back()
Back(seq) == seq[Len(seq)]

(***************************************************************************)
(* AF: focus mode, trigger state machine, region, manual focus.            *)
(***************************************************************************)
\* The header's MAX_FOCUS_DISTANCE (mm); every updateAfParameter overwrites
\* the field it initialises.
MAX_FOCUS_DISTANCE == 5000

initAfParameter(self) ==
    [self EXCEPT !.mAfParams =
        [@ EXCEPT !.lens_position = 0,
                  !.lens_movement_start_timestamp = 0,
                  !.focus_mode = "ia_aiq_af_operation_mode_infinity",
                  !.focus_rect = ZeroRect,
                  !.manual_focus_parameters =
                      [manual_focus_action |-> "ia_aiq_manual_focus_action_none",
                       manual_focus_distance |-> MAX_FOCUS_DISTANCE,
                       manual_lens_position |-> 0],
                  !.trigger_new_search = FALSE]]

\* Mutant: CONTINUOUS_PICTURE locks on START as CONTINUOUS_VIDEO does.
updateAfParameterForAfTriggerStart_LocksPicture(self) ==
    LET s1 == [self EXCEPT !.mDuringAfTriggerScan = TRUE, !.mAfForceLock = FALSE]
    IN  CASE s1.mAfMode \in {"AF_MODE_AUTO", "AF_MODE_MACRO"} ->
                [s1 EXCEPT !.mAfParams.focus_mode = "ia_aiq_af_operation_mode_auto",
                           !.mAfParams.trigger_new_search = TRUE]
          [] s1.mAfMode \in {"AF_MODE_CONTINUOUS_VIDEO",
                             "AF_MODE_CONTINUOUS_PICTURE"} ->
                [s1 EXCEPT !.mAfForceLock = TRUE]
          [] OTHER -> s1

\* Mutant: CONTINUOUS_VIDEO does not lock on START.
updateAfParameterForAfTriggerStart_NoVideoLock(self) ==
    LET s1 == [self EXCEPT !.mDuringAfTriggerScan = TRUE, !.mAfForceLock = FALSE]
    IN  IF s1.mAfMode \in {"AF_MODE_AUTO", "AF_MODE_MACRO"}
        THEN [s1 EXCEPT !.mAfParams.focus_mode = "ia_aiq_af_operation_mode_auto",
                        !.mAfParams.trigger_new_search = TRUE]
        ELSE s1

updateAfParameterForAfTriggerStart(self) ==
    LET s1 == [self EXCEPT !.mDuringAfTriggerScan = TRUE, !.mAfForceLock = FALSE]
    IN  CASE s1.mAfMode \in {"AF_MODE_AUTO", "AF_MODE_MACRO"} ->
                \* Start user af scan in this frame.
                [s1 EXCEPT !.mAfParams.focus_mode = "ia_aiq_af_operation_mode_auto",
                           !.mAfParams.trigger_new_search = TRUE]
          [] s1.mAfMode = "AF_MODE_CONTINUOUS_VIDEO" ->
                \* Lock AF immediately
                [s1 EXCEPT !.mAfForceLock = TRUE]
          [] OTHER -> s1

\* Mutant: CANCEL does not stop the scan in AUTO and MACRO.
updateAfParameterForAfTriggerCancel_KeepsFocusMode(self) ==
    [self EXCEPT !.mDuringAfTriggerScan = FALSE, !.mAfForceLock = FALSE]

updateAfParameterForAfTriggerCancel(self) ==
    LET s1 == [self EXCEPT !.mDuringAfTriggerScan = FALSE, !.mAfForceLock = FALSE]
    IN  IF s1.mAfMode \in {"AF_MODE_AUTO", "AF_MODE_MACRO"}
        THEN \* Stop AF scan triggered by user.
             [s1 EXCEPT !.mAfParams.focus_mode = "ia_aiq_af_operation_mode_infinity"]
        ELSE s1

\* Mutant: a new focus mode does not clear mAfForceLock.
updateAfMode_KeepsLock(self, param) ==
    IF self.mAfMode # param.afMode
    THEN LET s1 == initAfParameter(self)
             s2 == [s1 EXCEPT !.mAfMode = param.afMode]
             s3 == IF s2.mAfMode \in {"AF_MODE_CONTINUOUS_PICTURE",
                                      "AF_MODE_CONTINUOUS_VIDEO"}
                   THEN [s2 EXCEPT !.mAfParams.focus_mode =
                                        "ia_aiq_af_operation_mode_auto"]
                   ELSE s2
         IN  [s3 EXCEPT !.mAfTrigger = "AF_TRIGGER_IDLE",
                        !.mDuringAfTriggerScan = FALSE]
    ELSE self

\* updateAfParameter, "Mode": a new focus mode resets the AF state.
updateAfMode(self, param) ==
    IF self.mAfMode # param.afMode
    THEN LET s1 == initAfParameter(self)
             s2 == [s1 EXCEPT !.mAfMode = param.afMode]
             s3 == IF s2.mAfMode \in {"AF_MODE_CONTINUOUS_PICTURE",
                                      "AF_MODE_CONTINUOUS_VIDEO"}
                   THEN [s2 EXCEPT !.mAfParams.focus_mode =
                                        "ia_aiq_af_operation_mode_auto"]
                   ELSE s2
         IN  [s3 EXCEPT !.mAfTrigger = "AF_TRIGGER_IDLE",
                        !.mAfForceLock = FALSE,
                        !.mDuringAfTriggerScan = FALSE]
    ELSE self

\* updateAfParameter, "Trigger": the rising edges of START and CANCEL.
\* Mutant: START acts in every frame that carries it, not on its rising edge.
updateAfTrigger_LevelTriggered(self, param) ==
    LET s1 == [self EXCEPT !.mAfParams.trigger_new_search = FALSE]
        s2 == IF param.afTrigger = "AF_TRIGGER_START"
              THEN updateAfParameterForAfTriggerStart(s1)
              ELSE IF s1.mAfTrigger # "AF_TRIGGER_CANCEL"
                      /\ param.afTrigger = "AF_TRIGGER_CANCEL"
                   THEN updateAfParameterForAfTriggerCancel(s1)
                   ELSE s1
    IN  [s2 EXCEPT !.mAfTrigger = param.afTrigger]

\* Mutant: a trigger back at IDLE ends the scan.
updateAfTrigger_IdleEndsScan(self, param) ==
    LET s1 == [self EXCEPT !.mAfParams.trigger_new_search = FALSE]
        s2 == IF s1.mAfTrigger # "AF_TRIGGER_START"
                 /\ param.afTrigger = "AF_TRIGGER_START"
              THEN updateAfParameterForAfTriggerStart(s1)
              ELSE IF s1.mAfTrigger # "AF_TRIGGER_CANCEL"
                      /\ param.afTrigger = "AF_TRIGGER_CANCEL"
                   THEN updateAfParameterForAfTriggerCancel(s1)
                   ELSE IF param.afTrigger = "AF_TRIGGER_IDLE"
                        THEN [s1 EXCEPT !.mDuringAfTriggerScan = FALSE]
                        ELSE s1
    IN  [s2 EXCEPT !.mAfTrigger = param.afTrigger]

updateAfTrigger(self, param) ==
    LET s1 == [self EXCEPT !.mAfParams.trigger_new_search = FALSE]
        s2 == IF s1.mAfTrigger # "AF_TRIGGER_START"
                 /\ param.afTrigger = "AF_TRIGGER_START"
              THEN updateAfParameterForAfTriggerStart(s1)
              ELSE IF s1.mAfTrigger # "AF_TRIGGER_CANCEL"
                      /\ param.afTrigger = "AF_TRIGGER_CANCEL"
                   THEN updateAfParameterForAfTriggerCancel(s1)
                   ELSE s1
    IN  [s2 EXCEPT !.mAfTrigger = param.afTrigger]

\* Mutant: the focus rectangle is not reset before the region is looked at.
updateAfRegion_NoReset(self, param) ==
    IF param.afRegions # << >>
    THEN LET window == Back(param.afRegions)
         IN  IF window.right > window.left /\ window.bottom > window.top
             THEN [self EXCEPT !.mAfParams.focus_rect =
                                   convertToIaWindow(FrameCoord(param), window)]
             ELSE self
    ELSE self

\* updateAfParameter, "Region": the last window of the request, if it has an area.
updateAfRegion(self, param) ==
    LET s1 == [self EXCEPT !.mAfParams.focus_rect = ZeroRect]
    IN  IF param.afRegions # << >>
        THEN LET window == Back(param.afRegions)
             IN  IF window.right > window.left /\ window.bottom > window.top
                 THEN [s1 EXCEPT !.mAfParams.focus_rect =
                                     convertToIaWindow(FrameCoord(param), window)]
                 ELSE s1
        ELSE s1

\* Mutant: the focus distance is not limited to minFocusDistance.
updateAfManualFocus_NoUpperClamp(self, param) ==
    IF self.mAfMode = "AF_MODE_OFF"
    THEN LET focusDistance ==
                 IF param.focusDistance < 0 THEN 0 ELSE param.focusDistance
             focusInMm == IF focusDistance # 0 THEN 1000 \div focusDistance ELSE 0
         IN  [self EXCEPT
                 !.mAfParams.focus_mode =
                     IF focusDistance # 0
                     THEN "ia_aiq_af_operation_mode_manual"
                     ELSE "ia_aiq_af_operation_mode_infinity",
                 !.mAfParams.manual_focus_parameters.manual_focus_action =
                     IF focusDistance # 0
                     THEN "ia_aiq_manual_focus_action_set_distance"
                     ELSE "ia_aiq_manual_focus_action_none",
                 !.mAfParams.manual_focus_parameters.manual_focus_distance =
                     focusInMm]
    ELSE [self EXCEPT !.mAfParams.manual_focus_parameters =
                          [manual_focus_action |-> "ia_aiq_manual_focus_action_none",
                           manual_focus_distance |-> 0,
                           manual_lens_position |-> 0]]

\* updateAfParameter, "Manual lens position".  focusInMm = 1000 * (1.0f /
\* focusDistance) converted to unsigned: on the whole diopters of the model
\* the float product truncates to the integer quotient.
updateAfManualFocus(self, param) ==
    IF self.mAfMode = "AF_MODE_OFF"
    THEN LET focusDistance ==
                 IF param.focusDistance > param.minFocusDistance
                 THEN param.minFocusDistance
                 ELSE IF param.focusDistance < 0 THEN 0 ELSE param.focusDistance
             focusInMm == IF focusDistance # 0 THEN 1000 \div focusDistance ELSE 0
         IN  [self EXCEPT
                 !.mAfParams.focus_mode =
                     IF focusDistance # 0
                     THEN "ia_aiq_af_operation_mode_manual"
                     ELSE "ia_aiq_af_operation_mode_infinity",
                 !.mAfParams.manual_focus_parameters.manual_focus_action =
                     IF focusDistance # 0
                     THEN "ia_aiq_manual_focus_action_set_distance"
                     ELSE "ia_aiq_manual_focus_action_none",
                 !.mAfParams.manual_focus_parameters.manual_focus_distance =
                     focusInMm]
    ELSE [self EXCEPT !.mAfParams.manual_focus_parameters =
                          [manual_focus_action |-> "ia_aiq_manual_focus_action_none",
                           manual_focus_distance |-> 0,
                           manual_lens_position |-> 0]]

updateAfParameter(self, param) ==
    LET s1 == [self EXCEPT
                  !.mAfParams.lens_position = param.lensPosition,
                  !.mAfParams.lens_movement_start_timestamp =
                      param.lensMovementStartTimestamp]
        s2 == updateAfMode(s1, param)
        s3 == updateAfTrigger(s2, param)
        s4 == updateAfRegion(s3, param)
    IN  updateAfManualFocus(s4, param)

\* Mutant: a missing result releases the lock.
fillAfTriggerResult_NullUnlocks(self, afResults) ==
    IF afResults = NULL
    THEN [self EXCEPT !.mAfForceLock = FALSE]
    ELSE IF ~self.mAfForceLock
         THEN self
         ELSE IF self.mAfMode \in {"AF_MODE_CONTINUOUS_PICTURE", "AF_MODE_AUTO",
                                   "AF_MODE_MACRO"}
              THEN [self EXCEPT !.mAfForceLock =
                       (afResults.status # "ia_aiq_af_status_local_search"
                        /\ afResults.status # "ia_aiq_af_status_extended_search")]
              ELSE self

\* Mutant: the lock follows the scan the other way round.
fillAfTriggerResult_Inverted(self, afResults) ==
    IF afResults = NULL \/ ~self.mAfForceLock
    THEN self
    ELSE IF self.mAfMode \in {"AF_MODE_CONTINUOUS_PICTURE", "AF_MODE_AUTO",
                              "AF_MODE_MACRO"}
         THEN [self EXCEPT !.mAfForceLock =
                  (afResults.status = "ia_aiq_af_status_local_search"
                   \/ afResults.status = "ia_aiq_af_status_extended_search")]
         ELSE self

\* Mutant: the result is consumed whether or not mAfForceLock is set.
fillAfTriggerResult_Unguarded(self, afResults) ==
    IF afResults = NULL
    THEN self
    ELSE IF self.mAfMode \in {"AF_MODE_CONTINUOUS_PICTURE", "AF_MODE_AUTO",
                              "AF_MODE_MACRO"}
         THEN [self EXCEPT !.mAfForceLock =
                  (afResults.status # "ia_aiq_af_status_local_search"
                   /\ afResults.status # "ia_aiq_af_status_extended_search")]
         ELSE self

\* afResults is NULL or the engine's result, of which only the status is read.
fillAfTriggerResult(self, afResults) ==
    IF afResults = NULL \/ ~self.mAfForceLock
    THEN self
    ELSE IF self.mAfMode \in {"AF_MODE_CONTINUOUS_PICTURE", "AF_MODE_AUTO",
                              "AF_MODE_MACRO"}
         THEN \* Lock AF after current scan
              [self EXCEPT !.mAfForceLock =
                  (afResults.status # "ia_aiq_af_status_local_search"
                   /\ afResults.status # "ia_aiq_af_status_extended_search")]
         ELSE self

(***************************************************************************)
(* AE: manual limits, manual exposure / gain / ISO, convergence, metering  *)
(* region.  "platform" is what PlatformData and IntelCca answer during the *)
(* call: the supported exposure-time and gain ranges (ret = "OK" or not),  *)
(* the number of exposures, the engine handle and its calibration data.    *)
(* Units: exposure times in us, gains in whole dB, fps in 1/1000 frame per *)
(* second, analog gains and ISO factors in 1/10000.                        *)
(***************************************************************************)
INT_MAX == 2147483647

\* pow(10, dB / 20) in 1/10000, for the whole dB 0 .. 12.
PowTable == <<10000, 11220, 12589, 14125, 15849, 17783, 19953, 22387,
              25119, 28184, 31623, 35481, 39811>>
Pow10dB(gain) == PowTable[gain + 1]

convertdBGainToISO(sensitivityGain, baseIso) ==
    (Pow10dB(sensitivityGain) * baseIso) \div 10000

\* convertdBGainToISO(gain, baseIso) <= INT_MAX.  A gain above the table is
\* 200 dB in the requests of the model: 10^10 times the base ISO, above
\* INT_MAX for every base ISO.
IsoFitsInt(sensitivityGain, baseIso) ==
    /\ sensitivityGain < Len(PowTable)
    /\ convertdBGainToISO(sensitivityGain, baseIso) <= INT_MAX

initAeParameter(self) ==
    [self EXCEPT !.mAeParams =
        [@ EXCEPT !.is_bypass = FALSE,
                  !.num_exposures = 1,
                  !.metering_mode = "ia_aiq_ae_metering_mode_evaluative",
                  !.priority_mode = "ia_aiq_ae_priority_mode_normal",
                  !.flicker_reduction_mode = "ia_aiq_ae_flicker_reduction_auto",
                  !.ev_shift = 0,
                  !.manual_exposure_time_us = Zeros(MaxExposureNum),
                  !.manual_analog_gain = Zeros(MaxExposureNum),
                  !.manual_iso = Zeros(MaxExposureNum),
                  !.exposure_window = ZeroRect,
                  !.exposure_coordinate = ZeroCoordinate,
                  !.manual_convergence_time = -1,
                  !.exposure_distribution_priority =
                      "ia_aiq_ae_exposure_distribution_auto"]]

\* Mutant: the upper end of the request's range is taken as it is.
LimitRange_MaxUnclipped(requested, requestedValid, supported, ret) ==
    IF requestedValid
    THEN IF ret = "OK"
         THEN [min |-> CLIP(requested.min, supported.max, supported.min),
               max |-> requested.max]
         ELSE [min |-> requested.min, max |-> requested.max]
    ELSE IF ret = "OK" THEN supported ELSE [min |-> -1, max |-> -1]

\* The request's range clipped into the platform's, or the one there is.
LimitRange(requested, requestedValid, supported, ret) ==
    IF requestedValid
    THEN IF ret = "OK"
         THEN LET min == CLIP(requested.min, supported.max, supported.min)
              IN  [min |-> min, max |-> CLIP(requested.max, supported.max, min)]
         ELSE [min |-> requested.min, max |-> requested.max]
    ELSE IF ret = "OK" THEN supported ELSE [min |-> -1, max |-> -1]

\* Mutant: the two frame-time limits are taken from the wrong ends of the range.
setFrameTimeLimits_Swapped(limit, param) ==
    IF param.aeFpsRange.min > 10 /\ param.aeFpsRange.max >= param.aeFpsRange.min
    THEN [limit EXCEPT
            !.manual_frame_time_us_max = 1000000000 \div param.aeFpsRange.max,
            !.manual_frame_time_us_min = 1000000000 \div param.aeFpsRange.min]
    ELSE IF param.fps > 10
         THEN [limit EXCEPT
                 !.manual_frame_time_us_max = 1000000000 \div param.fps,
                 !.manual_frame_time_us_min = 1000000000 \div param.fps]
         ELSE limit

\* Mutant: without a usable fps the frame-time limits go back to -1.
setFrameTimeLimits_Resets(limit, param) ==
    IF param.aeFpsRange.min > 10 /\ param.aeFpsRange.max >= param.aeFpsRange.min
    THEN [limit EXCEPT
            !.manual_frame_time_us_max = 1000000000 \div param.aeFpsRange.min,
            !.manual_frame_time_us_min = 1000000000 \div param.aeFpsRange.max]
    ELSE IF param.fps > 10
         THEN [limit EXCEPT
                 !.manual_frame_time_us_max = 1000000000 \div param.fps,
                 !.manual_frame_time_us_min = 1000000000 \div param.fps]
         ELSE [limit EXCEPT !.manual_frame_time_us_max = -1,
                            !.manual_frame_time_us_min = -1]

\* setAeManualLimits, the frame-time limits: 1000000 / fps in us, from the fps
\* range if it is valid (min > 0.01), else from the single fps if > 0.01.
setFrameTimeLimits(limit, param) ==
    IF param.aeFpsRange.min > 10 /\ param.aeFpsRange.max >= param.aeFpsRange.min
    THEN [limit EXCEPT
            !.manual_frame_time_us_max = 1000000000 \div param.aeFpsRange.min,
            !.manual_frame_time_us_min = 1000000000 \div param.aeFpsRange.max]
    ELSE IF param.fps > 10
         THEN [limit EXCEPT
                 !.manual_frame_time_us_max = 1000000000 \div param.fps,
                 !.manual_frame_time_us_min = 1000000000 \div param.fps]
         ELSE limit

setAeManualLimits(self, param, platform) ==
    LET limit0 == [self.mAeParams.manual_limits EXCEPT
                      !.manual_exposure_time_max = -1,
                      !.manual_exposure_time_min = -1,
                      !.manual_iso_min = -1,
                      !.manual_iso_max = -1]
        limit1 == setFrameTimeLimits(limit0, param)
        range == LimitRange(param.exposureTimeRange,
                            param.exposureTimeRange.min > 0
                              /\ param.exposureTimeRange.max >= param.exposureTimeRange.min,
                            platform.exposureTimeRange, platform.exposureTimeRet)
        limit2 == [limit1 EXCEPT !.manual_exposure_time_min = range.min,
                                 !.manual_exposure_time_max = range.max]
        gainRange == LimitRange(param.sensitivityGainRange,
                                param.sensitivityGainRange.min >= 0
                                  /\ param.sensitivityGainRange.max
                                       >= param.sensitivityGainRange.min,
                                platform.gainRange, platform.gainRet)
        isoMin == convertdBGainToISO(gainRange.min, platform.base_iso)
        isoMax == convertdBGainToISO(gainRange.max, platform.base_iso)
        limit3 == IF gainRange.min >= 0 /\ gainRange.max >= gainRange.min
                     /\ platform.intelCca # "nullptr" /\ platform.cmcRet = "OK"
                     /\ IsoFitsInt(gainRange.min, platform.base_iso)
                     /\ IsoFitsInt(gainRange.max, platform.base_iso)
                  THEN [limit2 EXCEPT !.manual_iso_min = isoMin,
                                      !.manual_iso_max = isoMax]
                  ELSE limit2
    IN  [self EXCEPT !.mAeParams.manual_limits = limit3]

\* Mutant: the exposure time is written as requested, not clipped.
setManualExposure_Unclipped(self, param, platform) ==
    IF param.manualExpTimeUs <= 0 \/ param.aeDistributionPriority = "DISTRIBUTION_ISO"
    THEN self
    ELSE LET n == self.mAeParams.num_exposures
         IN  [self EXCEPT !.mAeParams.manual_exposure_time_us =
                 [i \in 1..MaxExposureNum |->
                     IF i < n THEN -1
                     ELSE IF i = n THEN param.manualExpTimeUs ELSE @[i]]]

setManualExposure(self, param, platform) ==
    IF param.manualExpTimeUs <= 0 \/ param.aeDistributionPriority = "DISTRIBUTION_ISO"
    THEN self
    ELSE LET manualExpTimeUs ==
                 IF platform.exposureTimeRet = "OK"
                 THEN CLIP(param.manualExpTimeUs, platform.exposureTimeRange.max,
                           platform.exposureTimeRange.min)
                 ELSE param.manualExpTimeUs
             n == self.mAeParams.num_exposures
         IN  [self EXCEPT !.mAeParams.manual_exposure_time_us =
                 [i \in 1..MaxExposureNum |->
                     IF i < n THEN -1 ELSE IF i = n THEN manualExpTimeUs ELSE @[i]]]

\* The gain in dB that setManualGain converts: the request's, clipped.
ManualGaindB(param, platform) ==
    IF platform.gainRet = "OK"
    THEN CLIP(param.manualGain, platform.gainRange.max, platform.gainRange.min)
    ELSE param.manualGain

setManualGain(self, param, platform) ==
    IF param.manualGain < 0 \/ param.aeDistributionPriority = "DISTRIBUTION_SHUTTER"
    THEN self
    ELSE LET n == self.mAeParams.num_exposures
         IN  [self EXCEPT !.mAeParams.manual_analog_gain =
                 [i \in 1..MaxExposureNum |->
                     IF i <= n THEN Pow10dB(ManualGaindB(param, platform)) ELSE @[i]]]

\* Mutant: the ISO is written whatever the priority.
setManualIso_IgnoresPriority(self, param) ==
    IF param.manualIso <= 0
    THEN self
    ELSE LET n == self.mAeParams.num_exposures
         IN  [self EXCEPT !.mAeParams.manual_iso =
                 [i \in 1..MaxExposureNum |->
                     IF i <= n THEN param.manualIso ELSE @[i]]]

\* Mutant: the ISO is written over the analog gains.
setManualIso_OverwritesGain(self, param) ==
    IF param.manualIso <= 0 \/ param.aeDistributionPriority = "DISTRIBUTION_SHUTTER"
    THEN self
    ELSE LET n == self.mAeParams.num_exposures
         IN  [self EXCEPT !.mAeParams.manual_analog_gain =
                 [i \in 1..MaxExposureNum |->
                     IF i <= n THEN param.manualIso ELSE @[i]]]

setManualIso(self, param) ==
    IF param.manualIso <= 0 \/ param.aeDistributionPriority = "DISTRIBUTION_SHUTTER"
    THEN self
    ELSE LET n == self.mAeParams.num_exposures
         IN  [self EXCEPT !.mAeParams.manual_iso =
                 [i \in 1..MaxExposureNum |->
                     IF i <= n THEN param.manualIso ELSE @[i]]]

\* AiqUtils::convertSpeedModeToTime: the target convergence time, seconds.
convertSpeedModeToTime(speed) ==
    CASE speed = "CONVERGE_MID" -> 3
      [] speed = "CONVERGE_LOW" -> 5
      [] OTHER -> -1

FlickerReductionMode(antibandingMode, current) ==
    CASE antibandingMode = "ANTIBANDING_MODE_AUTO" -> "ia_aiq_ae_flicker_reduction_auto"
      [] antibandingMode = "ANTIBANDING_MODE_50HZ" -> "ia_aiq_ae_flicker_reduction_50hz"
      [] antibandingMode = "ANTIBANDING_MODE_60HZ" -> "ia_aiq_ae_flicker_reduction_60hz"
      [] antibandingMode = "ANTIBANDING_MODE_OFF" -> "ia_aiq_ae_flicker_reduction_off"
      [] OTHER -> current

ExposureDistributionPriority(priority) ==
    CASE priority = "DISTRIBUTION_SHUTTER" -> "ia_aiq_ae_exposure_distribution_shutter"
      [] priority = "DISTRIBUTION_ISO" -> "ia_aiq_ae_exposure_distribution_iso"
      [] priority = "DISTRIBUTION_APERTURE" -> "ia_aiq_ae_exposure_distribution_aperture"
      [] OTHER -> "ia_aiq_ae_exposure_distribution_auto"

\* Mutant: the manual arrays are not cleared first.
updateAeManual_NoClear(self, param, platform) ==
    IF param.aeMode = "AE_MODE_MANUAL"
    THEN setManualExposure(setManualIso(setManualGain(self, param, platform), param),
                           param, platform)
    ELSE [self EXCEPT !.mAeParams.ev_shift = param.evShift]

\* updateAeParameter, the manual arrays: cleared, then written in manual mode.
updateAeManual(self, param, platform) ==
    LET s1 == [self EXCEPT
                  !.mAeParams.manual_exposure_time_us = Zeros(MaxExposureNum),
                  !.mAeParams.manual_analog_gain = Zeros(MaxExposureNum),
                  !.mAeParams.manual_iso = Zeros(MaxExposureNum)]
    IN  IF param.aeMode = "AE_MODE_MANUAL"
        THEN setManualExposure(setManualIso(setManualGain(s1, param, platform), param),
                               param, platform)
        ELSE [s1 EXCEPT !.mAeParams.ev_shift = param.evShift]

\* The ticks of the engine-controlled convergence, from a speed preference.
PerTicks(speed) ==
    CASE speed = "CONVERGE_MID" -> 30
      [] speed = "CONVERGE_LOW" -> 60
      [] OTHER -> 1

\* Mutant: the engine-controlled branch leaves the convergence time alone.
updateAeConverge_KeepsTime(self, param) ==
    IF param.aeConvergeSpeedMode = "CONVERGE_SPEED_MODE_AIQ"
    THEN [self EXCEPT !.mAePerTicks = 1,
                      !.mAeParams.manual_convergence_time =
                          convertSpeedModeToTime(param.aeConvergeSpeed)]
    ELSE [self EXCEPT !.mAePerTicks = PerTicks(param.aeConvergeSpeed)]

\* updateAeParameter, the convergence speed.
updateAeConverge(self, param) ==
    IF param.aeConvergeSpeedMode = "CONVERGE_SPEED_MODE_AIQ"
    THEN [self EXCEPT !.mAePerTicks = 1,
                      !.mAeParams.manual_convergence_time =
                          convertSpeedModeToTime(param.aeConvergeSpeed)]
    ELSE [self EXCEPT !.mAeParams.manual_convergence_time = -1,
                      !.mAePerTicks = PerTicks(param.aeConvergeSpeed)]

\* updateAeParameter, the metering region: the centre of the last window.
updateAeRegion(self, param) ==
    LET s1 == [self EXCEPT !.mAeParams.exposure_coordinate = ZeroCoordinate]
    IN  IF param.blcAreaMode = "BLC_AREA_MODE_ON" /\ param.aeRegions # << >>
        THEN LET window == Back(param.aeRegions)
             IN  IF window.right > window.left /\ window.bottom > window.top
                 THEN [s1 EXCEPT !.mAeParams.exposure_coordinate =
                         convertToIaCoordinate(FrameCoord(param),
                           [x |-> window.left + (window.right - window.left) \div 2,
                            y |-> window.top + (window.bottom - window.top) \div 2])]
                 ELSE s1
        ELSE s1

updateAeParameter(self, param, platform) ==
    LET s1 == [self EXCEPT !.mAeParams.num_exposures = platform.exposureNum]
        s2 == setAeManualLimits(s1, param, platform)
        s3 == [s2 EXCEPT
                  !.mAeParams.flicker_reduction_mode =
                      FlickerReductionMode(param.antibandingMode, @),
                  !.mAeParams.exposure_distribution_priority =
                      ExposureDistributionPriority(param.aeDistributionPriority)]
        s4 == updateAeManual(s3, param, platform)
        s5 == updateAeConverge(s4, param)
    IN  updateAeRegion(s5, param)

(***************************************************************************)
(* AWB: scene mode, manual CCT range / white point / gains / colour        *)
(* transform, gain shift, convergence.                                     *)
(***************************************************************************)
initAwbParameter(self) ==
    [self EXCEPT !.mAwbParams.scene_mode = "ia_aiq_awb_operation_mode_auto",
                 !.mAwbParams.manual_convergence_time = -1,
                 !.mUseManualAwbGain = FALSE,
                 !.mManualGains = ZeroGains,
                 !.mAwbGainShift = ZeroGains]

\* Mutant: the first value, smaller or not.
Min2_First(a, b) == a

Min2(a, b) == IF b < a THEN b ELSE a
Max2(a, b) == IF a < b THEN b ELSE a

\* The illuminant presets, one engine scene mode each.
PresetSceneMode(awbMode) ==
    CASE awbMode = "AWB_MODE_INCANDESCENT" -> "ia_aiq_awb_operation_mode_incandescent"
      [] awbMode = "AWB_MODE_FLUORESCENT" -> "ia_aiq_awb_operation_mode_fluorescent"
      [] awbMode = "AWB_MODE_DAYLIGHT" -> "ia_aiq_awb_operation_mode_daylight"
      [] awbMode = "AWB_MODE_FULL_OVERCAST" -> "ia_aiq_awb_operation_mode_fully_overcast"
      [] awbMode = "AWB_MODE_PARTLY_OVERCAST" ->
             "ia_aiq_awb_operation_mode_partly_overcast"
      [] awbMode = "AWB_MODE_SUNSET" -> "ia_aiq_awb_operation_mode_sunset"
      [] awbMode = "AWB_MODE_VIDEO_CONFERENCE" ->
             "ia_aiq_awb_operation_mode_video_conference"
      [] OTHER -> "ia_aiq_awb_operation_mode_auto"

\* Mutant: the two flags are not reset before the switch.
updateAwbMode_NoReset(self, param) ==
    LET s1 == self
        s2 == CASE param.awbMode = "AWB_MODE_MANUAL_GAIN" ->
                     [s1 EXCEPT
                        !.mAwbParams.scene_mode = "ia_aiq_awb_operation_mode_auto",
                        !.mManualGains = param.awbManualGain,
                        !.mUseManualAwbGain = TRUE]
                [] param.awbMode = "AWB_MODE_MANUAL_COLOR_TRANSFORM" ->
                     [s1 EXCEPT
                        !.mAwbParams.scene_mode = "ia_aiq_awb_operation_mode_auto",
                        !.mUseManualColorMatrix = TRUE,
                        !.mColorMatrix = param.manualColorMatrix,
                        !.mColorGains = param.manualColorGains]
                [] OTHER ->
                     [s1 EXCEPT !.mAwbParams.scene_mode =
                                    PresetSceneMode(param.awbMode)]
    IN  [s2 EXCEPT !.mAwbGainShift = param.awbGainShift]

\* updateAwbParameter, the switch on the AWB mode, after both flags are reset.
updateAwbMode(self, param) ==
    LET s1 == [self EXCEPT !.mUseManualAwbGain = FALSE,
                           !.mUseManualColorMatrix = FALSE]
        s2 == CASE param.awbMode = "AWB_MODE_MANUAL_CCT_RANGE" ->
                     [s1 EXCEPT
                        !.mAwbParams.scene_mode =
                            "ia_aiq_awb_operation_mode_manual_cct_range",
                        !.mAwbParams.manual_cct_range =
                            [min_cct |-> Min2(param.cctRange.min, param.cctRange.max),
                             max_cct |-> Max2(param.cctRange.min, param.cctRange.max)]]
                [] param.awbMode = "AWB_MODE_MANUAL_WHITE_POINT" ->
                     [s1 EXCEPT
                        !.mAwbParams.scene_mode =
                            "ia_aiq_awb_operation_mode_manual_white",
                        !.mAwbParams.manual_white_coordinate =
                            convertToIaCoordinate(FrameCoord(param), param.whitePoint)]
                [] param.awbMode = "AWB_MODE_MANUAL_GAIN" ->
                     [s1 EXCEPT
                        !.mAwbParams.scene_mode = "ia_aiq_awb_operation_mode_auto",
                        !.mManualGains = param.awbManualGain,
                        !.mUseManualAwbGain = TRUE]
                [] param.awbMode = "AWB_MODE_MANUAL_COLOR_TRANSFORM" ->
                     [s1 EXCEPT
                        !.mAwbParams.scene_mode = "ia_aiq_awb_operation_mode_auto",
                        !.mUseManualColorMatrix = TRUE,
                        !.mColorMatrix = param.manualColorMatrix,
                        !.mColorGains = param.manualColorGains]
                [] OTHER ->
                     [s1 EXCEPT !.mAwbParams.scene_mode =
                                    PresetSceneMode(param.awbMode)]
    IN  [s2 EXCEPT !.mAwbGainShift = param.awbGainShift]

\* updateAwbParameter, the convergence speed; the ticks are switched on
\* param.aeConvergeSpeed.
updateAwbConverge(self, param) ==
    IF param.awbConvergeSpeedMode = "CONVERGE_SPEED_MODE_AIQ"
    THEN [self EXCEPT !.mAwbPerTicks = 1,
                      !.mAwbParams.manual_convergence_time =
                          convertSpeedModeToTime(param.awbConvergeSpeed)]
    ELSE [self EXCEPT !.mAwbParams.manual_convergence_time = -1,
                      !.mAwbPerTicks = PerTicks(param.aeConvergeSpeed)]

updateAwbParameter(self, param) ==
    updateAwbConverge(updateAwbMode(self, param), param)

(***************************************************************************)
(* The public methods.                                                     *)
(***************************************************************************)
\* The fields as the constructor leaves them: the blocks zeroed by CLEAR
\* (a zeroed enumeration is "0"), then the two AF members assigned.
Constructed ==
    [mAeParams |->
        [is_bypass |-> FALSE, num_exposures |-> 0, metering_mode |-> "0",
         priority_mode |-> "0", flicker_reduction_mode |-> "0", ev_shift |-> 0,
         manual_exposure_time_us |-> Zeros(MaxExposureNum),
         manual_analog_gain |-> Zeros(MaxExposureNum),
         manual_iso |-> Zeros(MaxExposureNum),
         manual_limits |->
            [manual_exposure_time_min |-> 0, manual_exposure_time_max |-> 0,
             manual_frame_time_us_min |-> 0, manual_frame_time_us_max |-> 0,
             manual_iso_min |-> 0, manual_iso_max |-> 0],
         exposure_window |-> ZeroRect, exposure_coordinate |-> ZeroCoordinate,
         manual_convergence_time |-> 0,
         exposure_distribution_priority |-> "0"],
     mAfParams |->
        [lens_position |-> 0, lens_movement_start_timestamp |-> 0,
         focus_mode |-> "0", focus_rect |-> ZeroRect,
         manual_focus_parameters |->
            [manual_focus_action |-> "0", manual_focus_distance |-> 0,
             manual_lens_position |-> 0],
         trigger_new_search |-> FALSE],
     mAwbParams |->
        [scene_mode |-> "0", manual_cct_range |-> [min_cct |-> 0, max_cct |-> 0],
         manual_white_coordinate |-> ZeroCoordinate, manual_convergence_time |-> 0],
     mUseManualAwbGain |-> FALSE,
     mUseManualColorMatrix |-> FALSE,
     mColorMatrix |-> Zeros(9),
     mColorGains |-> Zeros(4),
     mManualGains |-> ZeroGains,
     mAwbGainShift |-> ZeroGains,
     mAePerTicks |-> 1,
     mAwbPerTicks |-> 1,
     mAfForceLock |-> FALSE,
     mDuringAfTriggerScan |-> FALSE,
     mAfTrigger |-> "AF_TRIGGER_IDLE",
     mAfMode |-> "AF_MODE_OFF"]

init(self) ==
    LET s1 == initAwbParameter(initAfParameter(initAeParameter(self)))
    IN  [s1 EXCEPT !.mAePerTicks = 1,
                   !.mAwbPerTicks = 1,
                   !.mUseManualColorMatrix = FALSE,
                   !.mColorMatrix = Zeros(9),
                   !.mColorGains = Zeros(4),
                   !.mAfMode = "AF_MODE_AUTO",
                   !.mAfForceLock = FALSE,
                   !.mAfTrigger = "AF_TRIGGER_IDLE",
                   !.mDuringAfTriggerScan = FALSE]

updateParameter(self, param, platform) ==
    updateAfParameter(updateAwbParameter(updateAeParameter(self, param, platform),
                                         param),
                      param)

VALID_COLOR_GAINS(colorGains) ==
    colorGains[1] > 0 /\ colorGains[2] > 0 /\ colorGains[3] > 0 /\ colorGains[4] > 0

\* Mutant: the stored gains replace the engine's without the validity test.
updatePaResult_GainsUnchecked(self, paResult) ==
    IF paResult = NULL
    THEN paResult
    ELSE IF ~self.mUseManualColorMatrix
         THEN [paResult EXCEPT !.enable_manual_settings = FALSE]
         ELSE [paResult EXCEPT
                 !.color_gains =
                     [r |-> self.mColorGains[1], gr |-> self.mColorGains[2],
                      gb |-> self.mColorGains[3], b |-> self.mColorGains[4]],
                 !.color_conversion_matrix = self.mColorMatrix,
                 !.enable_manual_settings = TRUE]

\* updatePaResult writes the caller's structure only: the structure it leaves.
updatePaResult(self, paResult) ==
    IF paResult = NULL
    THEN paResult
    ELSE IF ~self.mUseManualColorMatrix
         THEN [paResult EXCEPT !.enable_manual_settings = FALSE]
         ELSE [paResult EXCEPT
                 !.color_gains =
                     IF VALID_COLOR_GAINS(self.mColorGains)
                     THEN [r |-> self.mColorGains[1], gr |-> self.mColorGains[2],
                           gb |-> self.mColorGains[3], b |-> self.mColorGains[4]]
                     ELSE @,
                 !.color_conversion_matrix = self.mColorMatrix,
                 !.enable_manual_settings = TRUE]

\* updateAwbResult writes the caller's structure only.  The ratios it leaves
\* are kept as terms: which gains they were derived from and whether they
\* replace or scale the engine's ratio (AiqUtils::normalizeAwbGain and the
\* normalisation bounds belong to AiqUtils).
updateAwbResult(self, awbResult) ==
    IF awbResult = NULL
    THEN awbResult
    ELSE IF self.mUseManualColorMatrix /\ VALID_COLOR_GAINS(self.mColorGains)
         THEN LET maxChroma == Max2(1, self.mColorGains[2])
              IN  [awbResult EXCEPT
                     !.accurate_r_per_g =
                         [num |-> maxChroma, den |-> self.mColorGains[1]],
                     !.accurate_b_per_g =
                         [num |-> maxChroma, den |-> self.mColorGains[4]]]
         ELSE LET gains == IF self.mUseManualAwbGain THEN self.mManualGains
                           ELSE self.mAwbGainShift
                  how == IF self.mUseManualAwbGain THEN "replaced" ELSE "scaled"
              IN  [awbResult EXCEPT
                     !.accurate_b_per_g =
                         [how |-> how, normalized |-> <<gains.b_gain, gains.g_gain>>,
                          engine |-> @],
                     !.accurate_r_per_g =
                         [how |-> how, normalized |-> <<gains.r_gain, gains.g_gain>>,
                          engine |-> @]]

(***************************************************************************)
(* The requests and platform answers the model draws.  Each family varies  *)
(* the fields one part of updateParameter reads and leaves the others at   *)
(* the values of DefaultParam.                                             *)
(***************************************************************************)
Window(l, t, r, b) == [left |-> l, top |-> t, right |-> r, bottom |-> b]

\* Region lists: none, the last window without an area (no width), the last
\* window with an area.
RegionLists ==
    { << >>,
      << Window(1, 1, 3, 3), Window(2, 2, 2, 3) >>,
      << Window(3, 1, 1, 3), Window(0, 0, 4, 2) >> }

DefaultParam ==
    [tuningMode |-> "TUNING_MODE_VIDEO", sceneMode |-> "SCENE_MODE_AUTO",
     resolution |-> [width |-> 4, height |-> 4],
     aeFpsRange |-> [min |-> 0, max |-> 0], fps |-> 0,
     exposureTimeRange |-> [min |-> -1, max |-> -1],
     sensitivityGainRange |-> [min |-> -1, max |-> -1],
     manualExpTimeUs |-> 0, manualGain |-> -1, manualIso |-> 0,
     aeDistributionPriority |-> "DISTRIBUTION_AUTO",
     antibandingMode |-> "ANTIBANDING_MODE_AUTO",
     aeMode |-> "AE_MODE_AUTO", evShift |-> 0,
     aeConvergeSpeedMode |-> "CONVERGE_SPEED_MODE_AIQ",
     aeConvergeSpeed |-> "CONVERGE_NORMAL",
     blcAreaMode |-> "BLC_AREA_MODE_OFF", aeRegions |-> << >>,
     awbMode |-> "AWB_MODE_AUTO",
     cctRange |-> [min |-> 0, max |-> 0],
     whitePoint |-> ZeroCoordinate,
     awbManualGain |-> ZeroGains,
     manualColorMatrix |-> Zeros(9),
     manualColorGains |-> Zeros(4),
     awbGainShift |-> ZeroGains,
     awbConvergeSpeedMode |-> "CONVERGE_SPEED_MODE_AIQ",
     awbConvergeSpeed |-> "CONVERGE_NORMAL",
     lensPosition |-> 0, lensMovementStartTimestamp |-> 0,
     afMode |-> "AF_MODE_AUTO", afTrigger |-> "AF_TRIGGER_IDLE",
     afRegions |-> << >>, focusDistance |-> 0, minFocusDistance |-> 0]

\* The platform supports exposure times 2 .. 3 us and gains 1 .. 2 dB when it
\* answers the query.
DefaultPlatform ==
    [exposureTimeRet |-> "OK", exposureTimeRange |-> [min |-> 2, max |-> 3],
     gainRet |-> "OK", gainRange |-> [min |-> 1, max |-> 2],
     exposureNum |-> 1, intelCca |-> "cca", cmcRet |-> "OK", base_iso |-> 100]

Call(param, platform) == [param |-> param, platform |-> platform]

\* Focus mode, trigger and focus region; the focus distances in mode OFF.
AfRequests ==
    { Call([DefaultParam EXCEPT !.afMode = m, !.afTrigger = t, !.afRegions = r],
           DefaultPlatform) :
        m \in AfModes, t \in AfTriggers, r \in RegionLists }
    \cup
    { Call([DefaultParam EXCEPT !.afMode = "AF_MODE_OFF",
                                !.focusDistance = d, !.minFocusDistance = n],
           DefaultPlatform) :
        d \in -1..(MaxFocusDistance + 1), n \in 0..MaxFocusDistance }

AeModes == {"AE_MODE_AUTO", "AE_MODE_MANUAL"}
Priorities == {"DISTRIBUTION_AUTO", "DISTRIBUTION_SHUTTER", "DISTRIBUTION_ISO",
               "DISTRIBUTION_APERTURE"}
Rets == {"OK", "NAME_NOT_FOUND"}

\* Manual exposure time, with and without a supported range.
AeExposureRequests ==
    { Call([DefaultParam EXCEPT !.aeMode = a, !.aeDistributionPriority = p,
                                !.manualExpTimeUs = e],
           [DefaultPlatform EXCEPT !.exposureTimeRet = ret]) :
        a \in AeModes, p \in Priorities, e \in -1..MaxManualExpTime, ret \in Rets }

\* Manual gain, with and without a supported range and for every number of
\* exposures, next to an exposure time above the supported range.
AeGainRequests ==
    { Call([DefaultParam EXCEPT !.aeMode = "AE_MODE_MANUAL",
                                !.aeDistributionPriority = p,
                                !.manualExpTimeUs = MaxManualExpTime,
                                !.manualGain = g],
           [DefaultPlatform EXCEPT !.gainRet = ret, !.exposureNum = n]) :
        p \in Priorities, g \in -1..MaxManualGain, ret \in Rets,
        n \in 1..MaxExposureNum }

\* Manual ISO (none, negative, positive), without and with a manual gain.
AeIsoRequests ==
    { Call([DefaultParam EXCEPT !.aeMode = "AE_MODE_MANUAL",
                                !.aeDistributionPriority = p,
                                !.manualGain = g,
                                !.manualIso = 100 * i],
           DefaultPlatform) :
        p \in Priorities, g \in {-1, MaxManualGain}, i \in -1..MaxManualIso }

\* Metering region.
AeRegionRequests ==
    { Call([DefaultParam EXCEPT !.blcAreaMode = b, !.aeRegions = r],
           DefaultPlatform) :
        b \in {"BLC_AREA_MODE_OFF", "BLC_AREA_MODE_ON"}, r \in RegionLists }

\* EV shift, in both AE modes.
AeEvShiftRequests ==
    { Call([DefaultParam EXCEPT !.aeMode = a, !.evShift = ev], DefaultPlatform) :
        a \in AeModes, ev \in {0, 1} }

AwbModes == {"AWB_MODE_AUTO", "AWB_MODE_INCANDESCENT", "AWB_MODE_FLUORESCENT",
             "AWB_MODE_DAYLIGHT", "AWB_MODE_FULL_OVERCAST", "AWB_MODE_PARTLY_OVERCAST",
             "AWB_MODE_SUNSET", "AWB_MODE_VIDEO_CONFERENCE",
             "AWB_MODE_MANUAL_CCT_RANGE", "AWB_MODE_MANUAL_WHITE_POINT",
             "AWB_MODE_MANUAL_GAIN", "AWB_MODE_MANUAL_COLOR_TRANSFORM"}

\* AWB mode with its payloads: CCT ranges in either order, colour gains with
\* and without a non-positive channel.
AwbRequests ==
    { Call([DefaultParam EXCEPT !.awbMode = w, !.cctRange = c,
                                !.whitePoint = [x |-> 1, y |-> 2],
                                !.awbManualGain = [r_gain |-> 10, g_gain |-> 20,
                                                   b_gain |-> 30],
                                !.manualColorMatrix = [i \in 1..9 |-> i],
                                !.manualColorGains = cg,
                                !.awbGainShift = [r_gain |-> 5, g_gain |-> 0,
                                                  b_gain |-> 0]],
           DefaultPlatform) :
        w \in AwbModes,
        c \in {[min |-> 3000, max |-> 5000], [min |-> 5000, max |-> 3000],
               [min |-> 6500, max |-> 4000]},
        cg \in {<<1, 2, 2, 1>>, <<1, 0, 2, 1>>} }

\* Frame rates in 1/1000 fps: none, 0.005 fps, 25 fps, 30 fps.
FpsValues == {0, 5, 25000, 30000}

\* The fps range and the single fps value.
AeFpsRequests ==
    { Call([DefaultParam EXCEPT !.aeFpsRange = [min |-> lo, max |-> hi], !.fps = f],
           DefaultPlatform) :
        lo \in FpsValues, hi \in FpsValues, f \in FpsValues }

ConvergeSpeedModes == {"CONVERGE_SPEED_MODE_AIQ", "CONVERGE_SPEED_MODE_HAL"}
ConvergeSpeeds == {"CONVERGE_NORMAL", "CONVERGE_MID", "CONVERGE_LOW"}

\* Convergence: who controls it and the speed preference, for AE and for AWB.
ConvergeRequests ==
    { Call([DefaultParam EXCEPT !.aeConvergeSpeedMode = am, !.aeConvergeSpeed = as,
                                !.awbConvergeSpeedMode = wm, !.awbConvergeSpeed = ws],
           DefaultPlatform) :
        am \in ConvergeSpeedModes, as \in ConvergeSpeeds,
        wm \in ConvergeSpeedModes, ws \in ConvergeSpeeds }

\* The requested exposure-time range: none, min 0, below, inside, across and
\* above the supported range, reversed; with and without a supported range.
AeExposureRangeRequests ==
    { Call([DefaultParam EXCEPT !.exposureTimeRange = [min |-> lo, max |-> hi]],
           [DefaultPlatform EXCEPT !.exposureTimeRet = ret]) :
        lo \in {-1, 0, 1, 2, 3, 4}, hi \in {-1, 1, 3, 5}, ret \in Rets }

\* The requested gain range in dB: none, inside and across the supported
\* range, up to 200 dB, reversed; with and without a supported range, a
\* tuning instance and its CMC.
AeGainRangeRequests ==
    { Call([DefaultParam EXCEPT !.sensitivityGainRange = range],
           [DefaultPlatform EXCEPT !.gainRet = ret, !.intelCca = cca,
                                   !.cmcRet = cmc]) :
        range \in {[min |-> -1, max |-> -1], [min |-> 0, max |-> 2],
                   [min |-> 0, max |-> 200], [min |-> 2, max |-> 1]},
        ret \in Rets, cca \in {"cca", "nullptr"}, cmc \in Rets }

LimitsRequests == AeFpsRequests \cup AeExposureRangeRequests \cup AeGainRangeRequests

\* The requests of the three specifications: AF with the metering region, AE
\* manual values, AWB.
Requests == AfRequests \cup AeRegionRequests
AeRequests ==
    AeExposureRequests \cup AeGainRequests \cup AeIsoRequests \cup AeEvShiftRequests

\* What the engine hands to the result overrides.
EngineAfResults == [status : AfStatuses]
EnginePaResult ==
    [color_gains |-> [r |-> 7, gr |-> 7, gb |-> 7, b |-> 7],
     color_conversion_matrix |-> [i \in 1..9 |-> 7],
     enable_manual_settings |-> TRUE]
EngineAwbResult == [accurate_r_per_g |-> "engine", accurate_b_per_g |-> "engine"]
EngineAeResult == [exposures |-> "engine"]

(***************************************************************************)
(* Actions: one per public method.                                         *)
(***************************************************************************)
Init ==
    /\ mAeParams = Constructed.mAeParams
    /\ mAfParams = Constructed.mAfParams
    /\ mAwbParams = Constructed.mAwbParams
    /\ mUseManualAwbGain = Constructed.mUseManualAwbGain
    /\ mUseManualColorMatrix = Constructed.mUseManualColorMatrix
    /\ mColorMatrix = Constructed.mColorMatrix
    /\ mColorGains = Constructed.mColorGains
    /\ mManualGains = Constructed.mManualGains
    /\ mAwbGainShift = Constructed.mAwbGainShift
    /\ mAePerTicks = Constructed.mAePerTicks
    /\ mAwbPerTicks = Constructed.mAwbPerTicks
    /\ mAfForceLock = Constructed.mAfForceLock
    /\ mDuringAfTriggerScan = Constructed.mDuringAfTriggerScan
    /\ mAfTrigger = Constructed.mAfTrigger
    /\ mAfMode = Constructed.mAfMode
    /\ op = "constructor"
    /\ arg = NULL
    /\ out = NULL
    /\ pre = NULL

Reinit ==
    /\ Becomes(init(This))
    /\ op' = "init"
    /\ arg' = NULL
    /\ out' = NULL
    /\ pre' = Found

Update(call) ==
    /\ Becomes(updateParameter(This, call.param, call.platform))
    /\ op' = "updateParameter"
    /\ arg' = call
    /\ out' = NULL
    /\ pre' = Found

UpdateParameter == \E call \in Requests : Update(call)

UpdateParameterAe == \E call \in AeRequests : Update(call)

UpdateParameterAwb == \E call \in AwbRequests : Update(call)

UpdateParameterConverge == \E call \in ConvergeRequests : Update(call)

UpdateParameterLimits == \E call \in LimitsRequests : Update(call)

UpdateAeResult ==
    \E aeResult \in {NULL, EngineAeResult} :
        /\ UNCHANGED fields
        /\ op' = "updateAeResult"
        /\ arg' = aeResult
        /\ out' = aeResult
        /\ pre' = Found

UpdatePaResult ==
    \E paResult \in {NULL, EnginePaResult} :
        /\ UNCHANGED fields
        /\ op' = "updatePaResult"
        /\ arg' = paResult
        /\ out' = updatePaResult(This, paResult)
        /\ pre' = Found

UpdateAwbResult ==
    \E awbResult \in {NULL, EngineAwbResult} :
        /\ UNCHANGED fields
        /\ op' = "updateAwbResult"
        /\ arg' = awbResult
        /\ out' = updateAwbResult(This, awbResult)
        /\ pre' = Found

FillAfTriggerResult ==
    \E afResults \in {NULL} \cup EngineAfResults :
        /\ Becomes(fillAfTriggerResult(This, afResults))
        /\ op' = "fillAfTriggerResult"
        /\ arg' = afResults
        /\ out' = afResults
        /\ pre' = Found

Next ==
    \/ Reinit
    \/ UpdateParameter
    \/ UpdateAeResult
    \/ UpdatePaResult
    \/ UpdateAwbResult
    \/ FillAfTriggerResult

Spec == Init /\ [][Next]_vars

\* The AE part of updateParameter under the requests that vary it.
NextAe ==
    \/ Reinit
    \/ UpdateParameterAe

SpecAe == Init /\ [][NextAe]_vars

\* The AWB part of updateParameter under the requests that vary it, and the
\* result overrides that read what it stores.
NextAwb ==
    \/ Reinit
    \/ UpdateParameterAwb
    \/ UpdatePaResult
    \/ UpdateAwbResult

SpecAwb == Init /\ [][NextAwb]_vars

\* The convergence part of updateParameter under the requests that vary it.
NextConverge ==
    \/ Reinit
    \/ UpdateParameterConverge

SpecConverge == Init /\ [][NextConverge]_vars

\* setAeManualLimits under the requests and platform answers that vary it.
NextLimits ==
    \/ Reinit
    \/ UpdateParameterLimits

SpecLimits == Init /\ [][NextLimits]_vars

(***************************************************************************)
(* fillAfTriggerResult as a function of the members it reads: the focus    *)
(* mode, the trigger state and the two flags range over their types, the   *)
(* other fields are as init() leaves them.                                 *)
(***************************************************************************)
InitFill ==
    /\ \E m \in AfModes, t \in AfTriggers, lock \in BOOLEAN, scan \in BOOLEAN :
          LET self == [init(Constructed) EXCEPT !.mAfMode = m, !.mAfTrigger = t,
                                                !.mAfForceLock = lock,
                                                !.mDuringAfTriggerScan = scan]
          IN  /\ mAeParams = self.mAeParams
              /\ mAfParams = self.mAfParams
              /\ mAwbParams = self.mAwbParams
              /\ mUseManualAwbGain = self.mUseManualAwbGain
              /\ mUseManualColorMatrix = self.mUseManualColorMatrix
              /\ mColorMatrix = self.mColorMatrix
              /\ mColorGains = self.mColorGains
              /\ mManualGains = self.mManualGains
              /\ mAwbGainShift = self.mAwbGainShift
              /\ mAePerTicks = self.mAePerTicks
              /\ mAwbPerTicks = self.mAwbPerTicks
              /\ mAfForceLock = self.mAfForceLock
              /\ mDuringAfTriggerScan = self.mDuringAfTriggerScan
              /\ mAfTrigger = self.mAfTrigger
              /\ mAfMode = self.mAfMode
    /\ op = "init"
    /\ arg = NULL
    /\ out = NULL
    /\ pre = NULL

NextFill == FillAfTriggerResult

SpecFill == InitFill /\ [][NextFill]_vars

(***************************************************************************)
(* Properties.                                                             *)
(***************************************************************************)
Updated == op = "updateParameter"
Filled == op = "fillAfTriggerResult"
Searching(status) ==
    status \in {"ia_aiq_af_status_local_search", "ia_aiq_af_status_extended_search"}
ScanModes == {"AF_MODE_AUTO", "AF_MODE_MACRO", "AF_MODE_CONTINUOUS_PICTURE"}

\* fillAfTriggerResult was given a result while forceLock was set in one of
\* the modes whose scan it follows.
FilledWhileLocked ==
    /\ Filled
    /\ arg # NULL
    /\ pre.mAfForceLock
    /\ pre.mAfMode \in ScanModes

ModeChanged == Updated /\ arg.param.afMode # pre.mAfMode

DefaultFocusModes(afMode) ==
    CASE afMode \in {"AF_MODE_CONTINUOUS_PICTURE", "AF_MODE_CONTINUOUS_VIDEO"} ->
             {"ia_aiq_af_operation_mode_auto"}
      [] afMode = "AF_MODE_OFF" ->
             {"ia_aiq_af_operation_mode_manual", "ia_aiq_af_operation_mode_infinity"}
      [] OTHER -> {"ia_aiq_af_operation_mode_infinity"}

AfStateReset ==
    /\ ~mAfForceLock
    /\ ~mDuringAfTriggerScan
    /\ mAfParams.focus_mode \in DefaultFocusModes(arg.param.afMode)

\* C2 as stated: after an updateParameter whose focus mode differs from the
\* stored one, forceLock and duringTriggerScan are false and the focus
\* operation mode is the new mode's default, whatever the request and the
\* prior state.
C2_ModeChangeResets == ModeChanged => AfStateReset

\* C2 amended: the same, for requests whose trigger is not START.
C2_ModeChangeResetsUnlessStart ==
    (ModeChanged /\ arg.param.afTrigger # "AF_TRIGGER_START") => AfStateReset

C2_Witness ==
    /\ ModeChanged
    /\ arg.param.afTrigger = "AF_TRIGGER_IDLE"
    /\ pre.mAfForceLock
    /\ pre.mDuringAfTriggerScan
    /\ arg.param.afMode = "AF_MODE_AUTO"
    /\ AfStateReset

\* updateParameter saw the trigger rise to START / to CANCEL.
RisingStart ==
    /\ Updated
    /\ pre.mAfTrigger # "AF_TRIGGER_START"
    /\ arg.param.afTrigger = "AF_TRIGGER_START"
RisingCancel ==
    /\ Updated
    /\ pre.mAfTrigger # "AF_TRIGGER_CANCEL"
    /\ arg.param.afTrigger = "AF_TRIGGER_CANCEL"
ModeHeld == Updated /\ arg.param.afMode = pre.mAfMode

\* C3: on a rising edge of START duringTriggerScan is true when the call
\* returns; in CONTINUOUS_VIDEO forceLock is true; in AUTO and MACRO forceLock
\* is false, the focus operation mode is auto (scan) and trigger_new_search
\* is true.
C3_TriggerStart ==
    RisingStart =>
        /\ mDuringAfTriggerScan
        /\ mAfMode = "AF_MODE_CONTINUOUS_VIDEO" => mAfForceLock
        /\ mAfMode \in {"AF_MODE_AUTO", "AF_MODE_MACRO"} =>
              /\ ~mAfForceLock
              /\ mAfParams.focus_mode = "ia_aiq_af_operation_mode_auto"
              /\ mAfParams.trigger_new_search

C3_Witness ==
    /\ RisingStart
    /\ mAfMode = "AF_MODE_CONTINUOUS_VIDEO"
    /\ mAfForceLock
    /\ mDuringAfTriggerScan

\* The first frame of the scenario: the mode held at AUTO or MACRO, the
\* trigger going from IDLE to START.
StartedFromIdle ==
    /\ ModeHeld
    /\ mAfMode \in {"AF_MODE_AUTO", "AF_MODE_MACRO"}
    /\ pre.mAfTrigger = "AF_TRIGGER_IDLE"
    /\ arg.param.afTrigger = "AF_TRIGGER_START"

\* The second frame follows the first with CANCEL in the same mode.
CancelledNext ==
    /\ StartedFromIdle
    /\ op' = "updateParameter"
    /\ arg'.param.afMode = mAfMode
    /\ arg'.param.afTrigger = "AF_TRIGGER_CANCEL"

\* START then CANCEL with the mode held at AUTO or MACRO.
StartThenCancel ==
    /\ StartedFromIdle =>
          mAfParams.trigger_new_search /\ mDuringAfTriggerScan
    /\ CancelledNext =>
          /\ mAfParams'.focus_mode = "ia_aiq_af_operation_mode_infinity"
          /\ ~mDuringAfTriggerScan'
          /\ ~mAfForceLock'
          /\ ~mAfParams'.trigger_new_search

\* A rising-edge CANCEL with the mode held at one of the other modes.
CancelElsewhere(modes) ==
    /\ RisingCancel
    /\ ModeHeld
    /\ mAfMode \in modes

\* C4 as stated: START then CANCEL in AUTO or MACRO gives new-search and
\* duringTriggerScan after the first call and infinity with everything
\* cleared after the second; in any other mode a rising-edge CANCEL clears
\* duringTriggerScan and forceLock and leaves the focus operation mode as it
\* was (taken here only where init() or an earlier updateParameter has set
\* the operation mode).
C4_StartCancel ==
    [][/\ StartThenCancel
       /\ (/\ CancelElsewhere(AfModes \ {"AF_MODE_AUTO", "AF_MODE_MACRO"})'
           /\ pre'.focus_mode # "0") =>
             /\ ~mDuringAfTriggerScan'
             /\ ~mAfForceLock'
             /\ mAfParams'.focus_mode = pre'.focus_mode]_vars

\* The distance updateAfParameter focuses at in mode OFF: the request's,
\* brought into [0, minFocusDistance].
ClampedFocusDistance(param) ==
    IF param.focusDistance < 0 THEN 0
    ELSE IF param.focusDistance > param.minFocusDistance
         THEN param.minFocusDistance ELSE param.focusDistance

\* C4 amended: as stated for AUTO and MACRO; a rising-edge CANCEL with the
\* mode held clears duringTriggerScan and forceLock, leaves the focus
\* operation mode as it was in the CONTINUOUS modes, and in mode OFF leaves
\* the mode the request's focus distance selects (infinity at distance zero,
\* manual otherwise).
C4_StartCancelAmended ==
    [][/\ StartThenCancel
       /\ CancelElsewhere(AfModes \ {"AF_MODE_AUTO", "AF_MODE_MACRO"})' =>
             /\ ~mDuringAfTriggerScan'
             /\ ~mAfForceLock'
             /\ mAfMode' # "AF_MODE_OFF" =>
                    mAfParams'.focus_mode = pre'.focus_mode
             /\ mAfMode' = "AF_MODE_OFF" =>
                    mAfParams'.focus_mode =
                        IF ClampedFocusDistance(arg'.param) = 0
                        THEN "ia_aiq_af_operation_mode_infinity"
                        ELSE "ia_aiq_af_operation_mode_manual"]_vars

C4_Witness ==
    /\ RisingCancel
    /\ ModeHeld
    /\ mAfMode = "AF_MODE_AUTO"
    /\ pre.mAfTrigger = "AF_TRIGGER_START"
    /\ pre.mDuringAfTriggerScan
    /\ pre.focus_mode = "ia_aiq_af_operation_mode_auto"
    /\ mAfParams.focus_mode = "ia_aiq_af_operation_mode_infinity"
    /\ ~mDuringAfTriggerScan

\* C5: fillAfTriggerResult called while forceLock is false, or while it is
\* true in CONTINUOUS_VIDEO or OFF, changes no field, whatever the status.
C5_FillNoOp ==
    [][(/\ op' = "fillAfTriggerResult"
        /\ \/ ~mAfForceLock
           \/ mAfMode \in {"AF_MODE_CONTINUOUS_VIDEO", "AF_MODE_OFF"})
       => UNCHANGED fields]_vars

C5_Witness ==
    /\ Filled
    /\ arg # NULL
    /\ arg.status = "ia_aiq_af_status_local_search"
    /\ pre.mAfMode = "AF_MODE_CONTINUOUS_VIDEO"
    /\ pre.mAfForceLock
    /\ mAfForceLock

\* C6: the manual-AWB-gain flag and the manual-colour-transform flag are
\* never both true, and an updateParameter that activates one of them leaves
\* the other false.
C6_ManualAwbExclusive ==
    /\ ~(mUseManualAwbGain /\ mUseManualColorMatrix)
    /\ (Updated /\ arg.param.awbMode = "AWB_MODE_MANUAL_GAIN") =>
           (mUseManualAwbGain /\ ~mUseManualColorMatrix)
    /\ (Updated /\ arg.param.awbMode = "AWB_MODE_MANUAL_COLOR_TRANSFORM") =>
           (mUseManualColorMatrix /\ ~mUseManualAwbGain)

C6_Witness ==
    /\ Updated
    /\ arg.param.awbMode = "AWB_MODE_MANUAL_GAIN"
    /\ pre.mUseManualColorMatrix
    /\ mUseManualAwbGain
    /\ ~mUseManualColorMatrix

AllUnset(array) == \A i \in DOMAIN array : array[i] = 0

\* C7: after an updateParameter whose AE mode is not manual every entry of the
\* manual exposure-time, analog-gain and ISO arrays is 0, whatever earlier
\* frames wrote.
C7_ManualArraysCleared ==
    (Updated /\ arg.param.aeMode # "AE_MODE_MANUAL") =>
        /\ AllUnset(mAeParams.manual_exposure_time_us)
        /\ AllUnset(mAeParams.manual_analog_gain)
        /\ AllUnset(mAeParams.manual_iso)

C7_Witness ==
    /\ Updated
    /\ arg.param.aeMode = "AE_MODE_AUTO"
    /\ arg.param.manualExpTimeUs > 0
    /\ pre.manual_set
    /\ AllUnset(mAeParams.manual_exposure_time_us)
    /\ AllUnset(mAeParams.manual_analog_gain)
    /\ AllUnset(mAeParams.manual_iso)

UpdatedOff == Updated /\ arg.param.afMode = "AF_MODE_OFF"

\* C8: in focus mode OFF the distance used is the request's brought into
\* [0, minFocusDistance]; at zero the operation mode is infinity with action
\* none and manual distance 0, otherwise the mode is manual, the action
\* set-distance and the manual distance 1000 divided by it, truncated.
C8_ManualFocus ==
    UpdatedOff =>
        LET d == ClampedFocusDistance(arg.param)
            manual == mAfParams.manual_focus_parameters
        IN  /\ 0 <= d /\ d <= arg.param.minFocusDistance
            /\ d = 0 =>
                  /\ mAfParams.focus_mode = "ia_aiq_af_operation_mode_infinity"
                  /\ manual.manual_focus_action = "ia_aiq_manual_focus_action_none"
                  /\ manual.manual_focus_distance = 0
            /\ d # 0 =>
                  /\ mAfParams.focus_mode = "ia_aiq_af_operation_mode_manual"
                  /\ manual.manual_focus_action =
                         "ia_aiq_manual_focus_action_set_distance"
                  /\ manual.manual_focus_distance = 1000 \div d

C8_Witness ==
    /\ UpdatedOff
    /\ arg.param.focusDistance > arg.param.minFocusDistance
    /\ arg.param.minFocusDistance = 3
    /\ mAfParams.focus_mode = "ia_aiq_af_operation_mode_manual"
    /\ mAfParams.manual_focus_parameters.manual_focus_distance = 333

\* A value brought into [lo, hi].
Clamped(value, lo, hi) == IF value < lo THEN lo ELSE IF value > hi THEN hi ELSE value

\* updateParameter in manual AE mode wrote the exposure time / the gain while
\* the platform reported a supported range for it.
WroteExposureInRange ==
    /\ Updated
    /\ arg.param.aeMode = "AE_MODE_MANUAL"
    /\ arg.platform.exposureTimeRet = "OK"
    /\ arg.param.manualExpTimeUs > 0
    /\ arg.param.aeDistributionPriority # "DISTRIBUTION_ISO"
WroteGainInRange ==
    /\ Updated
    /\ arg.param.aeMode = "AE_MODE_MANUAL"
    /\ arg.platform.gainRet = "OK"
    /\ arg.param.manualGain >= 0
    /\ arg.param.aeDistributionPriority # "DISTRIBUTION_SHUTTER"

\* C9: with a supported range [min, max] the manual exposure time written and
\* the gain in dB that is converted are the requested value clamped into the
\* range: max above it, min below it, unchanged inside it, and clamping the
\* result again changes nothing.
C9_ClippedToPlatformRange ==
    /\ WroteExposureInRange =>
          LET range == arg.platform.exposureTimeRange
              requested == arg.param.manualExpTimeUs
              written == mAeParams.manual_exposure_time_us[mAeParams.num_exposures]
          IN  /\ written = Clamped(requested, range.min, range.max)
              /\ requested > range.max => written = range.max
              /\ requested < range.min => written = range.min
              /\ (range.min <= requested /\ requested <= range.max) =>
                     written = requested
              /\ Clamped(written, range.min, range.max) = written
    /\ WroteGainInRange =>
          LET range == arg.platform.gainRange
              requested == arg.param.manualGain
              used == Clamped(requested, range.min, range.max)
          IN  /\ \A i \in 1..mAeParams.num_exposures :
                     mAeParams.manual_analog_gain[i] = Pow10dB(used)
              /\ requested > range.max => used = range.max
              /\ requested < range.min => used = range.min
              /\ (range.min <= requested /\ requested <= range.max) =>
                     used = requested
              /\ Clamped(used, range.min, range.max) = used

C9_Witness ==
    /\ WroteExposureInRange
    /\ WroteGainInRange
    /\ arg.param.manualExpTimeUs > arg.platform.exposureTimeRange.max
    /\ arg.param.manualGain < arg.platform.gainRange.min
    /\ mAeParams.manual_exposure_time_us[mAeParams.num_exposures] =
           arg.platform.exposureTimeRange.max
    /\ mAeParams.manual_analog_gain[1] = Pow10dB(arg.platform.gainRange.min)

HasArea(window) == window.right > window.left /\ window.bottom > window.top
AfRegionApplies(param) ==
    param.afRegions # << >> /\ HasArea(Back(param.afRegions))
AeRegionHasArea(param) ==
    param.aeRegions # << >> /\ HasArea(Back(param.aeRegions))

\* C10 as stated: a focus region (likewise a metering region) is applied only
\* if it has positive width and height; with no region or one without an area
\* the focus rectangle (the exposure coordinate) keeps the value it had before
\* the call.
C10_RegionKept ==
    /\ (Updated /\ ~AfRegionApplies(arg.param)) =>
           mAfParams.focus_rect = pre.focus_rect
    /\ (Updated /\ ~AeRegionHasArea(arg.param)) =>
           mAeParams.exposure_coordinate = pre.exposure_coordinate

\* C10 amended: a focus region is applied if and only if it has positive
\* width and height, a metering region only if it has and BLC area mode is
\* on; otherwise the call resets the focus rectangle (the exposure
\* coordinate) to zero, whatever it was before.
C10_RegionAppliedOrReset ==
    Updated =>
        /\ mAfParams.focus_rect =
              IF AfRegionApplies(arg.param)
              THEN convertToIaWindow(FrameCoord(arg.param), Back(arg.param.afRegions))
              ELSE ZeroRect
        /\ ~(AeRegionHasArea(arg.param)
              /\ arg.param.blcAreaMode = "BLC_AREA_MODE_ON") =>
              mAeParams.exposure_coordinate = ZeroCoordinate
        /\ mAeParams.exposure_coordinate # ZeroCoordinate =>
              AeRegionHasArea(arg.param)

C10_Witness ==
    /\ Updated
    /\ ModeHeld
    /\ arg.param.afRegions # << >>
    /\ ~AfRegionApplies(arg.param)
    /\ pre.focus_rect # ZeroRect
    /\ mAfParams.focus_rect = ZeroRect

TickCounts == {1, 30, 60}
TimeControlled(mode) == mode = "CONVERGE_SPEED_MODE_AIQ"

\* C11: the AE and AWB tick counts are each one of 1, 30, 60; a tick count
\* above 1 goes with the convergence time -1; an updateParameter that sets the
\* convergence time from the speed preference leaves the tick count 1.
C11_TicksAndTime ==
    /\ mAePerTicks \in TickCounts
    /\ mAwbPerTicks \in TickCounts
    /\ mAePerTicks > 1 => mAeParams.manual_convergence_time = -1
    /\ mAwbPerTicks > 1 => mAwbParams.manual_convergence_time = -1
    /\ (Updated /\ TimeControlled(arg.param.aeConvergeSpeedMode)) =>
           /\ mAePerTicks = 1
           /\ mAeParams.manual_convergence_time =
                  convertSpeedModeToTime(arg.param.aeConvergeSpeed)
    /\ (Updated /\ TimeControlled(arg.param.awbConvergeSpeedMode)) =>
           /\ mAwbPerTicks = 1
           /\ mAwbParams.manual_convergence_time =
                  convertSpeedModeToTime(arg.param.awbConvergeSpeed)

C11_Witness ==
    /\ Updated
    /\ ~TimeControlled(arg.param.aeConvergeSpeedMode)
    /\ TimeControlled(arg.param.awbConvergeSpeedMode)
    /\ arg.param.awbConvergeSpeed = "CONVERGE_LOW"
    /\ pre.mAePerTicks = 30
    /\ pre.mAwbPerTicks = 30
    /\ mAePerTicks = 60
    /\ mAeParams.manual_convergence_time = -1
    /\ mAwbPerTicks = 1
    /\ mAwbParams.manual_convergence_time > 0

\* Frame time in us of a frame rate in 1/1000 fps.
FrameTimeUs(fps) == 1000000000 \div fps
FrameTimeLimitsFromRange(range) ==
    LET limit == mAeParams.manual_limits
    IN  /\ limit.manual_frame_time_us_max = FrameTimeUs(range.min)
        /\ limit.manual_frame_time_us_min = FrameTimeUs(range.max)
        /\ limit.manual_frame_time_us_min <= limit.manual_frame_time_us_max
FrameTimeLimitsFromFps(fps) ==
    LET limit == mAeParams.manual_limits
    IN  /\ limit.manual_frame_time_us_max = FrameTimeUs(fps)
        /\ limit.manual_frame_time_us_min = FrameTimeUs(fps)

\* C12 as stated: for a request whose fps range has min > 0 and max >= min the
\* frame-time limits are max = 1000000 / range.min and min = 1000000 /
\* range.max, with min <= max; when the range is not valid and the single fps
\* is positive both limits are 1000000 / fps.
C12_FrameTimeLimits ==
    Updated =>
        LET range == arg.param.aeFpsRange
            valid == range.min > 0 /\ range.max >= range.min
        IN  /\ valid => FrameTimeLimitsFromRange(range)
            /\ (~valid /\ arg.param.fps > 0) => FrameTimeLimitsFromFps(arg.param.fps)

\* C12 amended: the same with 0.01 fps in place of 0: the range counts if its
\* min is above 0.01 and max >= min, the single fps if it is above 0.01.
C12_FrameTimeLimitsAbove ==
    Updated =>
        LET range == arg.param.aeFpsRange
            valid == range.min > 10 /\ range.max >= range.min
        IN  /\ valid => FrameTimeLimitsFromRange(range)
            /\ (~valid /\ arg.param.fps > 10) => FrameTimeLimitsFromFps(arg.param.fps)

C12_Witness ==
    /\ Updated
    /\ arg.param.aeFpsRange = [min |-> 25000, max |-> 30000]
    /\ pre.manual_frame_time_us_max = 33333
    /\ mAeParams.manual_limits.manual_frame_time_us_max = 40000
    /\ mAeParams.manual_limits.manual_frame_time_us_min = 33333

ResultMethods == {"updateAeResult", "updatePaResult", "updateAwbResult",
                  "fillAfTriggerResult"}

\* C13: updateAeResult, updatePaResult, updateAwbResult and
\* fillAfTriggerResult called with a null result leave every field as it was
\* (and there is no result structure to write).
C13_NullResultNoOp ==
    [][(op' \in ResultMethods /\ arg' = NULL) =>
           (UNCHANGED fields /\ out' = NULL)]_vars

C13_Witness ==
    /\ Filled
    /\ arg = NULL
    /\ pre.mAfForceLock
    /\ pre.mDuringAfTriggerScan
    /\ mAfForceLock
    /\ mDuringAfTriggerScan

C16_NewSearchOnRisingStart ==
    Updated =>
        /\ mAfParams.trigger_new_search =>
              /\ mAfMode \in {"AF_MODE_AUTO", "AF_MODE_MACRO"}
              /\ arg.param.afTrigger = "AF_TRIGGER_START"
              /\ pre.mAfTrigger # "AF_TRIGGER_START" \/ ModeChanged
        /\ (ModeHeld /\ pre.mAfTrigger = "AF_TRIGGER_START"
                      /\ arg.param.afTrigger = "AF_TRIGGER_START") =>
              ~mAfParams.trigger_new_search

C16_Witness ==
    /\ Updated
    /\ ModeHeld
    /\ mAfMode = "AF_MODE_MACRO"
    /\ pre.mAfTrigger = "AF_TRIGGER_START"
    /\ arg.param.afTrigger = "AF_TRIGGER_START"
    /\ mDuringAfTriggerScan
    /\ mAfParams.focus_mode = "ia_aiq_af_operation_mode_auto"
    /\ ~mAfParams.trigger_new_search

\* The tick count the claims give for a speed preference.
TicksOf(speed) ==
    CASE speed = "CONVERGE_NORMAL" -> 1
      [] speed = "CONVERGE_MID" -> 30
      [] speed = "CONVERGE_LOW" -> 60

\* C15: in the engine-decides branch the AWB tick count left by
\* updateParameter is the one of the request's AWB converge speed (1 for
\* NORMAL, 30 for MID, 60 for LOW), whatever its AE converge speed.
C15_AwbTicksFromAwbSpeed ==
    (Updated /\ ~TimeControlled(arg.param.awbConvergeSpeedMode)) =>
        mAwbPerTicks = TicksOf(arg.param.awbConvergeSpeed)

UpdatedManual == Updated /\ arg.param.aeMode = "AE_MODE_MANUAL"

\* C17: in manual AE mode, with shutter priority the analog-gain and ISO
\* arrays stay 0 and with ISO priority the exposure-time array stays 0,
\* whatever the request carries; a non-positive exposure time, a negative
\* gain or a non-positive ISO is never written.
C17_PriorityDecidesManualFields ==
    UpdatedManual =>
        /\ arg.param.aeDistributionPriority = "DISTRIBUTION_SHUTTER" =>
              /\ AllUnset(mAeParams.manual_analog_gain)
              /\ AllUnset(mAeParams.manual_iso)
        /\ arg.param.aeDistributionPriority = "DISTRIBUTION_ISO" =>
              AllUnset(mAeParams.manual_exposure_time_us)
        /\ arg.param.manualExpTimeUs <= 0 =>
              AllUnset(mAeParams.manual_exposure_time_us)
        /\ arg.param.manualGain < 0 => AllUnset(mAeParams.manual_analog_gain)
        /\ arg.param.manualIso <= 0 => AllUnset(mAeParams.manual_iso)

C17_Witness ==
    /\ UpdatedManual
    /\ arg.param.aeDistributionPriority = "DISTRIBUTION_SHUTTER"
    /\ arg.param.manualGain >= 0
    /\ arg.param.manualIso > 0
    /\ pre.manual_set
    /\ AllUnset(mAeParams.manual_analog_gain)
    /\ AllUnset(mAeParams.manual_iso)

\* The request carries a manual gain and a manual ISO that are both written.
GainAndIsoPermitted ==
    /\ UpdatedManual
    /\ arg.param.manualGain >= 0
    /\ arg.param.manualIso > 0
    /\ arg.param.aeDistributionPriority # "DISTRIBUTION_SHUTTER"
\* The analog gain the request's manual gain gives.
GainDerived ==
    Pow10dB(IF arg.platform.gainRet = "OK"
            THEN Clamped(arg.param.manualGain, arg.platform.gainRange.min,
                         arg.platform.gainRange.max)
            ELSE arg.param.manualGain)

AllPositive(gains) == \A i \in DOMAIN gains : gains[i] > 0

\* C19: updatePaResult on a result changes no field; with the
\* manual-colour-transform flag false it leaves the engine's matrix and gains
\* and enable_manual_settings false; with the flag true it leaves the stored
\* matrix, enable_manual_settings true, and the stored gains if all four are
\* positive, else the engine's gains.
C19_PaResultOverride ==
    [][(op' = "updatePaResult" /\ arg' # NULL) =>
          /\ UNCHANGED fields
          /\ ~mUseManualColorMatrix =>
                 /\ out'.color_conversion_matrix = arg'.color_conversion_matrix
                 /\ out'.color_gains = arg'.color_gains
                 /\ ~out'.enable_manual_settings
          /\ mUseManualColorMatrix =>
                 /\ out'.color_conversion_matrix = mColorMatrix
                 /\ out'.enable_manual_settings
                 /\ out'.color_gains =
                        IF AllPositive(mColorGains)
                        THEN [r |-> mColorGains[1], gr |-> mColorGains[2],
                              gb |-> mColorGains[3], b |-> mColorGains[4]]
                        ELSE arg'.color_gains]_vars

C19_Witness ==
    /\ op = "updatePaResult"
    /\ arg # NULL
    /\ mUseManualColorMatrix
    /\ ~AllPositive(mColorGains)
    /\ out.color_conversion_matrix = mColorMatrix
    /\ out.color_conversion_matrix # arg.color_conversion_matrix
    /\ out.color_gains = arg.color_gains
    /\ out.enable_manual_settings

\* C20: after updateParameter the exposure-time limits lie in the platform's
\* range, min <= max, if the request's range is valid (min > 0, max >= min)
\* and the platform reports a range; they are the request's range if only
\* that is valid, the platform's if only that is reported, and -1 if neither;
\* the two ISO limits are both -1 or both set.
C20_ExposureAndIsoLimits ==
    Updated =>
        LET limit == mAeParams.manual_limits
            requested == arg.param.exposureTimeRange
            valid == requested.min > 0 /\ requested.max >= requested.min
            reported == arg.platform.exposureTimeRet = "OK"
            supported == arg.platform.exposureTimeRange
        IN  /\ (valid /\ reported /\ supported.min <= supported.max) =>
                   /\ supported.min <= limit.manual_exposure_time_min
                   /\ limit.manual_exposure_time_min <= limit.manual_exposure_time_max
                   /\ limit.manual_exposure_time_max <= supported.max
            /\ (valid /\ ~reported) =>
                   /\ limit.manual_exposure_time_min = requested.min
                   /\ limit.manual_exposure_time_max = requested.max
            /\ (~valid /\ reported) =>
                   /\ limit.manual_exposure_time_min = supported.min
                   /\ limit.manual_exposure_time_max = supported.max
            /\ (~valid /\ ~reported) =>
                   /\ limit.manual_exposure_time_min = -1
                   /\ limit.manual_exposure_time_max = -1
            /\ (limit.manual_iso_min = -1) <=> (limit.manual_iso_max = -1)

C20_Witness ==
    /\ Updated
    /\ arg.param.exposureTimeRange = [min |-> 4, max |-> 5]
    /\ arg.platform.exposureTimeRet = "OK"
    /\ mAeParams.manual_limits.manual_exposure_time_min = 3
    /\ mAeParams.manual_limits.manual_exposure_time_max = 3
    /\ mAeParams.manual_limits.manual_iso_min > 0
    /\ mAeParams.manual_limits.manual_iso_max > mAeParams.manual_limits.manual_iso_min

\* The request's gain range reaches 200 dB and nothing clips it: the lower
\* ISO fits an int, the upper does not, and neither limit is set.
C20_IsoOverflowSkipped ==
    /\ Updated
    /\ arg.param.sensitivityGainRange = [min |-> 0, max |-> 200]
    /\ arg.platform.gainRet # "OK"
    /\ arg.platform.intelCca # "nullptr"
    /\ arg.platform.cmcRet = "OK"
    /\ mAeParams.manual_limits.manual_iso_min = -1
    /\ mAeParams.manual_limits.manual_iso_max = -1

\* C21: in every state the engine's manual CCT range has min_cct <= max_cct;
\* after an updateParameter in manual-CCT-range mode min_cct is the smaller
\* and max_cct the larger of the two requested values, in whichever order
\* they came; an updateParameter in any other AWB mode leaves the range as
\* it was.
C21_CctRangeSorted ==
    /\ [](/\ mAwbParams.manual_cct_range.min_cct <= mAwbParams.manual_cct_range.max_cct
          /\ (Updated /\ arg.param.awbMode = "AWB_MODE_MANUAL_CCT_RANGE") =>
                 LET requested == arg.param.cctRange
                     stored == mAwbParams.manual_cct_range
                 IN  /\ {stored.min_cct, stored.max_cct} =
                            {requested.min, requested.max}
                     /\ stored.min_cct <= requested.min
                     /\ stored.min_cct <= requested.max)
    /\ [][(op' = "updateParameter"
            /\ arg'.param.awbMode # "AWB_MODE_MANUAL_CCT_RANGE") =>
               mAwbParams'.manual_cct_range = mAwbParams.manual_cct_range]_vars

\* A range requested max first is stored min first, and a later request in
\* another mode with another range leaves it there.
C21_Witness ==
    /\ Updated
    /\ arg.param.awbMode = "AWB_MODE_MANUAL_GAIN"
    /\ arg.param.cctRange = [min |-> 3000, max |-> 5000]
    /\ mAwbParams.manual_cct_range = [min_cct |-> 4000, max_cct |-> 6500]

\* C22: a trigger scan in progress stays in progress across every result
\* method and every updateParameter that keeps the focus mode and is not a
\* rising CANCEL (the trigger back at IDLE included); a rising START of such
\* a call puts it in progress.
C22_ScanHeldUntilCancel ==
    /\ [][(/\ mDuringAfTriggerScan
            /\ \/ op' \in ResultMethods
               \/ /\ op' = "updateParameter"
                  /\ arg'.param.afMode = mAfMode
                  /\ ~(mAfTrigger # "AF_TRIGGER_CANCEL"
                       /\ arg'.param.afTrigger = "AF_TRIGGER_CANCEL"))
              => mDuringAfTriggerScan']_vars
    /\ []((Updated /\ pre.mAfTrigger # "AF_TRIGGER_START"
                   /\ arg.param.afTrigger = "AF_TRIGGER_START")
              => mDuringAfTriggerScan)

\* The trigger went from START back to IDLE in the same focus mode and the
\* scan is still in progress.
C22_Witness ==
    /\ Updated
    /\ ModeHeld
    /\ pre.mDuringAfTriggerScan
    /\ pre.mAfTrigger = "AF_TRIGGER_START"
    /\ arg.param.afTrigger = "AF_TRIGGER_IDLE"
    /\ mDuringAfTriggerScan

\* A result arrived while the scan was in progress, and it still is.
C22_FilledDuringScan ==
    /\ Filled
    /\ out # NULL
    /\ pre.mDuringAfTriggerScan
    /\ mDuringAfTriggerScan

\* C23: an updateParameter whose request has neither a valid fps range
\* (min > 0.01, max >= min) nor a positive single fps leaves the two
\* frame-time limits as they were; the exposure-time limits of the same call
\* are -1 if the request has no valid range and the platform reports none,
\* and the ISO limits are -1 if the request has no valid gain range and the
\* platform reports none, whatever they were before.
C23_FrameTimeLimitsKept ==
    /\ [][(/\ op' = "updateParameter"
            /\ ~(arg'.param.aeFpsRange.min > 10
                 /\ arg'.param.aeFpsRange.max >= arg'.param.aeFpsRange.min)
            /\ ~(arg'.param.fps > 0))
              => /\ mAeParams'.manual_limits.manual_frame_time_us_min =
                        mAeParams.manual_limits.manual_frame_time_us_min
                 /\ mAeParams'.manual_limits.manual_frame_time_us_max =
                        mAeParams.manual_limits.manual_frame_time_us_max]_vars
    /\ [](Updated =>
            LET limit == mAeParams.manual_limits
                exposure == arg.param.exposureTimeRange
                gain == arg.param.sensitivityGainRange
            IN  /\ (/\ ~(exposure.min > 0 /\ exposure.max >= exposure.min)
                     /\ arg.platform.exposureTimeRet # "OK")
                       => /\ limit.manual_exposure_time_min = -1
                          /\ limit.manual_exposure_time_max = -1
                /\ (/\ ~(gain.min >= 0 /\ gain.max >= gain.min)
                     /\ arg.platform.gainRet # "OK")
                       => /\ limit.manual_iso_min = -1
                          /\ limit.manual_iso_max = -1)

\* The limits of an earlier 25 fps request are still there after a request
\* without fps, whose exposure-time limits are back at -1.
C23_Witness ==
    /\ Updated
    /\ arg.param.aeFpsRange = [min |-> 0, max |-> 0]
    /\ arg.param.fps = 0
    /\ arg.platform.exposureTimeRet # "OK"
    /\ pre.manual_frame_time_us_max = 40000
    /\ mAeParams.manual_limits.manual_frame_time_us_max = 40000
    /\ mAeParams.manual_limits.manual_frame_time_us_min = 40000
    /\ mAeParams.manual_limits.manual_exposure_time_max = -1

=============================================================================
